---------------------------- MODULE Spec2Model ----------------------------
(***************************************************************************)
(* A model of src/src/balls.c: the bouncing-balls simulation.              *)
(*                                                                         *)
(* Numbers.  The C code computes in `double`.  A double is modelled here   *)
(* as an exact rational [n |-> numerator, d |-> denominator] in lowest     *)
(* terms with d > 0, or as NaN (d = 0), the value IEEE-754 gives 0.0/0.0.  *)
(* NaN propagates through every arithmetic operation and makes every       *)
(* ordered comparison false, as in the compiled program.  Rounding of the  *)
(* 53-bit mantissa is not modelled: the arithmetic is that of the reals.   *)
(* The square root in norm() is kept symbolic (see norm below).            *)
(***************************************************************************)
EXTENDS Integers, Sequences, FiniteSets, TLC

VARIABLES
    pc,        \* position in main() / renderBalls()
    exitCode,  \* value returned by main(), -1 while running
    running,   \* main's `running` flag
    setupOK,   \* whether setup() returned 0
    amnt,      \* ball_amnt (argv[1])
    radius,    \* radius (argv[2])
    balls,     \* the array Ball* balls[ball_amnt], 1-based here
    i,         \* outer loop index of renderBalls / of the creation loop (1-based)
    j,         \* inner loop index of renderBalls (1-based)
    queue,     \* the SDL event queue
    frame,     \* history: number of renderBalls calls started
    start,     \* history: the balls as they were when the current call started
    calls,     \* history: resolver invocations of the current frame
    log,       \* history: moveBall / bounceWall applications of the current frame
    quitSeen,  \* history: an SDL_QUIT event has been processed
    escSeen    \* history: Escape has been processed in the current poll

vars == <<pc, exitCode, running, setupOK, amnt, radius, balls, i, j, queue,
          frame, start, calls, log, quitSeen, escSeen>>

---------------------------------------------------------------------------
(* Program constants *)

SCREEN_WIDTH == 1200

SCREEN_HEIGHT == 1200

(* Bounds of the model *)

MaxBalls == 3

MaxFrames == 2

MaxEvents == 2

MaxBounces == 2

MaxSpeed == 1

MaxOffset == 2

---------------------------------------------------------------------------
(* double arithmetic *)

Abs(k) == IF k < 0 THEN -k ELSE k

RECURSIVE GCD(_, _)
GCD(a, b) == IF b = 0 THEN a ELSE GCD(b, a % b)

NaN == [n |-> 0, d |-> 0]

IsNaN(x) == x.d = 0

\* the double with value p/q (q # 0), in lowest terms
Rat(p, q) ==
    LET g == GCD(Abs(p), Abs(q))
        s == IF q < 0 THEN -1 ELSE 1
    IN  [n |-> s * (p \div g), d |-> Abs(q) \div g]

\* conversion int -> double
D(k) == [n |-> k, d |-> 1]

\* x + y over the least common denominator
Add(x, y) == IF IsNaN(x) \/ IsNaN(y) THEN NaN
             ELSE LET g == GCD(x.d, y.d)
                  IN  Rat(x.n * (y.d \div g) + y.n * (x.d \div g),
                          (x.d \div g) * y.d)

Neg(x) == IF IsNaN(x) THEN NaN ELSE [n |-> -x.n, d |-> x.d]

Sub(x, y) == Add(x, Neg(y))

\* x * y, cancelling across before multiplying
Mul(x, y) == IF IsNaN(x) \/ IsNaN(y) THEN NaN
             ELSE IF x.n = 0 \/ y.n = 0 THEN [n |-> 0, d |-> 1]
             ELSE LET g == GCD(Abs(x.n), y.d)
                      h == GCD(Abs(y.n), x.d)
                  IN  [n |-> (x.n \div g) * (y.n \div h),
                       d |-> (x.d \div h) * (y.d \div g)]

\* x / y; only 0/0 arises in the program (norm of the zero vector)
Div(x, y) == IF IsNaN(x) \/ IsNaN(y) \/ y.n = 0 THEN NaN
             ELSE Mul(x, Rat(y.d, y.n))

Lt(x, y) == /\ ~IsNaN(x)
            /\ ~IsNaN(y)
            /\ LET g == GCD(x.d, y.d)
               IN  x.n * (y.d \div g) < y.n * (x.d \div g)

Gt(x, y) == Lt(y, x)

Vec(x, y) == [x |-> D(x), y |-> D(y)]


---------------------------------------------------------------------------
(* The functions of balls.c *)

\* makeBall(x, y, r).  The subspaces field, like the subspace_* globals, is
\* written and printed but read by no branch, and is left out.
makeBall(x, y, r) == [radius |-> r, pos |-> Vec(x, y), dir |-> Vec(0, 0)]

moveBallDropY(ball) ==
    [ball EXCEPT !.pos = [x |-> Add(ball.pos.x, ball.dir.x), y |-> ball.pos.y]]

moveBall(ball) ==
    [ball EXCEPT !.pos = [x |-> Add(ball.pos.x, ball.dir.x),
                          y |-> Add(ball.pos.y, ball.dir.y)]]

\* pyth(a, b) < s, for an int s: sqrt(a^2 + b^2) < s iff s > 0 and
\* a^2 + b^2 < s^2; false when a or b is NaN.  As sqrt(a^2 + b^2) is at
\* least |a| and |b|, the squares are only formed when both are below s.
pythLess(a, b, s) ==
    /\ s > 0
    /\ Lt(a, D(s)) /\ Lt(D(-s), a)
    /\ Lt(b, D(s)) /\ Lt(D(-s), b)
    /\ Lt(Add(Mul(a, a), Mul(b, b)), D(s * s))

overlapsTouching(a, b) ==
    LET dx == Sub(a.pos.x, b.pos.x)
        dy == Sub(a.pos.y, b.pos.y)
        s  == a.radius + b.radius
    IN  \/ pythLess(dx, dy, s)
        \/ /\ Lt(dx, D(s + 1)) /\ Lt(D(-s - 1), dx)
           /\ Lt(dy, D(s + 1)) /\ Lt(D(-s - 1), dy)
           /\ Add(Mul(dx, dx), Mul(dy, dy)) = D(s * s)

overlaps(a, b) ==
    pythLess(Sub(a.pos.x, b.pos.x), Sub(a.pos.y, b.pos.y), a.radius + b.radius)

\* norm(&v).  The unit vector v / sqrt(v.x^2 + v.y^2) is represented by the
\* triple [x, y, m2] standing for (x, y) / sqrt(m2); the zero vector gives
\* 0/0 = NaN on both components.
norm(v) ==
    LET m2 == Add(Mul(v.x, v.x), Mul(v.y, v.y))
    IN  IF IsNaN(m2) \/ m2.n = 0
        THEN [x |-> NaN, y |-> NaN, m2 |-> D(1)]
        ELSE [x |-> v.x, y |-> v.y, m2 |-> m2]

\* dot(&v, &n) for a unit vector n = (n.x, n.y) / sqrt(n.m2): the result is
\* this value / sqrt(n.m2)
dot(v, n) == Add(Mul(v.x, n.x), Mul(v.y, n.y))

\* scalar_product * n.c, where scalar_product carries one factor 1/sqrt(m2)
\* and the component n.c the other
impulse(sp, c, m2) == Div(Mul(sp, c), m2)

bounceNormal(a, b) ==
    norm([x |-> Sub(b.pos.x, a.pos.x), y |-> Sub(b.pos.y, a.pos.y)])

bounceScalar(a, b) ==
    LET n == bounceNormal(a, b) IN Sub(dot(a.dir, n), dot(b.dir, n))

\* bounce(a, b): the pair <<a', b'>>
bounceOneSided(a, b) ==
    LET n  == bounceNormal(a, b)
        sp == bounceScalar(a, b)
    IN  << [a EXCEPT !.dir = [x |-> Sub(a.dir.x, impulse(sp, n.x, n.m2)),
                              y |-> Sub(a.dir.y, impulse(sp, n.y, n.m2))]],
           b >>

bounceXOnly(a, b) ==
    LET n  == bounceNormal(a, b)
        sp == bounceScalar(a, b)
    IN  << [a EXCEPT !.dir = [x |-> Sub(a.dir.x, impulse(sp, n.x, n.m2)),
                              y |-> a.dir.y]],
           [b EXCEPT !.dir = [x |-> Add(b.dir.x, impulse(sp, n.x, n.m2)),
                              y |-> b.dir.y]] >>

bounce(a, b) ==
    LET n  == bounceNormal(a, b)
        sp == bounceScalar(a, b)
    IN  << [a EXCEPT !.dir = [x |-> Sub(a.dir.x, impulse(sp, n.x, n.m2)),
                              y |-> Sub(a.dir.y, impulse(sp, n.y, n.m2))]],
           [b EXCEPT !.dir = [x |-> Add(b.dir.x, impulse(sp, n.x, n.m2)),
                              y |-> Add(b.dir.y, impulse(sp, n.y, n.m2))]] >>

\* one axis of bounceWall: <<position, velocity>> after the test on that axis
wallAxis(p, v, r, extent) ==
    IF Lt(Sub(p, D(r)), D(0)) \/ Gt(Add(p, D(r)), D(extent))
    THEN LET w == Neg(v)
         IN  IF Gt(w, D(0)) THEN <<D(r + 1), w>> ELSE <<D(extent - r - 1), w>>
    ELSE <<p, v>>

bounceWall(a) ==
    LET h == wallAxis(a.pos.x, a.dir.x, a.radius, SCREEN_WIDTH)
        v == wallAxis(a.pos.y, a.dir.y, a.radius, SCREEN_HEIGHT)
    IN  [a EXCEPT !.pos = [x |-> h[1], y |-> v[1]],
                  !.dir = [x |-> h[2], y |-> v[2]]]

---------------------------------------------------------------------------
(* Inputs *)

\* argv[1]
Amounts == 1..MaxBalls

\* argv[2]; for both values radius * 2 * BALLS_PER_SUBSPACE divides the
\* screen extent, so that the two loops of lines 345-351 end at once
Radii == {3, 5}

\* values <<x, y, dx, dy>> of the four rand() draws that place one ball:
\* x = rand() % (SCREEN_WIDTH + 1), y = rand() % (SCREEN_HEIGHT + 1),
\* dx = (rand() % 10) - 5, dy = (rand() % 10) - 5.  Three spots on one row
\* within reach of each other, two spots in a corner, two lone spots next
\* to a wall.
Draws ==
    { <<600, 600, 1, 0>>,
      <<608, 600, 1, 0>>, <<608, 600, -1, 0>>,
      <<610, 600, -1, 0>>,
      <<0, 0, 1, 0>>, <<0, 0, -1, 0>>, <<2, 0, -1, 0>>,
      <<1195, 300, 3, -4>>, <<300, 1197, 0, 4>> }

\* event types the poll loop distinguishes
Events == {"SDL_QUIT", "SDLK_ESCAPE", "other"}

EventSeqs == UNION { [1..n -> Events] : n \in 0..MaxEvents }

---------------------------------------------------------------------------
(* main() and renderBalls() *)

Init ==
    /\ pc = "args"
    /\ exitCode = -1
    /\ running = FALSE
    /\ setupOK = FALSE
    /\ amnt = 0
    /\ radius = 0
    /\ balls = <<>>
    /\ i = 1
    /\ j = 1
    /\ queue = <<>>
    /\ frame = 0
    /\ start = <<>>
    /\ calls = <<>>
    /\ log = <<>>
    /\ quitSeen = FALSE
    /\ escSeen = FALSE

\* main, lines 330-354: the argument check and atoi
Args ==
    /\ pc = "args"
    /\ \E argcOK \in BOOLEAN :
         IF argcOK
         THEN /\ \E a \in Amounts, r \in Radii : amnt' = a /\ radius' = r
              /\ pc' = "setup"
              /\ exitCode' = exitCode
         ELSE /\ pc' = "exit"
              /\ exitCode' = 1
              /\ UNCHANGED <<amnt, radius>>
    /\ UNCHANGED <<running, setupOK, balls, i, j, queue, frame, start, calls,
                   log, quitSeen, escSeen>>

\* main, lines 358-365: `running` after setup() returned 0 (ok) or not
runningAfterSetup(ok) == ok

Setup ==
    /\ pc = "setup"
    /\ \E ok \in BOOLEAN :
         /\ setupOK' = ok
         /\ running' = runningAfterSetup(ok)
    /\ i' = 1
    /\ pc' = "make"
    /\ UNCHANGED <<exitCode, amnt, radius, balls, j, queue, frame, start,
                   calls, log, quitSeen, escSeen>>

\* main, lines 367-376: one iteration of the creation loop, or its exit
Make ==
    /\ pc = "make"
    /\ IF i <= amnt
       THEN /\ \E r \in Draws :
                 balls' = Append(balls, [makeBall(r[1], r[2], radius)
                                            EXCEPT !.dir = Vec(r[3], r[4])])
            /\ i' = i + 1
            /\ pc' = pc
       ELSE /\ pc' = "loop"
            /\ UNCHANGED <<balls, i>>
    /\ UNCHANGED <<exitCode, running, setupOK, amnt, radius, j, queue, frame,
                   start, calls, log, quitSeen, escSeen>>

\* main, line 378: the loop test; lines 379-386: into renderBalls
Loop ==
    /\ pc = "loop"
    /\ IF running
       THEN /\ frame < MaxFrames
            /\ frame' = frame + 1
            /\ start' = balls
            /\ calls' = <<>>
            /\ log' = <<>>
            /\ i' = 1
            /\ j' = 1
            /\ pc' = "scan"
       ELSE /\ pc' = "teardown"
            /\ UNCHANGED <<frame, start, calls, log, i, j>>
    /\ UNCHANGED <<exitCode, running, setupOK, amnt, radius, balls, queue,
                   quitSeen, escSeen>>

scanExitNever(hit) == FALSE

\* renderBalls, line 294: the inner loop is left on a hit
scanExit(hit) == hit

\* renderBalls, lines 288-300: one iteration of the inner loop, or its exit
Scan ==
    /\ pc = "scan"
    /\ IF j > amnt
       THEN /\ pc' = "move"
            /\ log' = Append(log, [op |-> "scan", b |-> i])
            /\ UNCHANGED <<balls, calls, j>>
       ELSE LET hit == j # i /\ overlaps(balls[i], balls[j])
                ab  == bounce(balls[i], balls[j])
            IN  /\ IF hit
                   THEN /\ balls' = [balls EXCEPT ![i] = ab[1], ![j] = ab[2]]
                        /\ calls' = Append(calls, [i |-> i, j |-> j])
                   ELSE UNCHANGED <<balls, calls>>
                /\ IF scanExit(hit)
                   THEN /\ pc' = "move"
                        /\ j' = j
                        /\ log' = Append(log, [op |-> "scan", b |-> i])
                   ELSE /\ pc' = pc
                        /\ j' = j + 1
                        /\ log' = log
    /\ UNCHANGED <<exitCode, running, setupOK, amnt, radius, i, queue, frame,
                   start, quitSeen, escSeen>>

\* renderBalls, line 308
Move ==
    /\ pc = "move"
    /\ balls' = [balls EXCEPT ![i] = moveBall(balls[i])]
    /\ log' = Append(log, [op |-> "moveBall", b |-> i])
    /\ pc' = "wall"
    /\ UNCHANGED <<exitCode, running, setupOK, amnt, radius, i, j, queue,
                   frame, start, calls, quitSeen, escSeen>>

\* renderBalls, line 309, and the step of the outer loop, line 287
Wall ==
    /\ pc = "wall"
    /\ balls' = [balls EXCEPT ![i] = bounceWall(balls[i])]
    /\ log' = Append(log, [op |-> "bounceWall", b |-> i])
    /\ IF i < amnt
       THEN i' = i + 1 /\ j' = 1 /\ pc' = "scan"
       ELSE i' = i /\ j' = j /\ pc' = "pump"
    /\ UNCHANGED <<exitCode, running, setupOK, amnt, radius, queue, frame,
                   start, calls, quitSeen, escSeen>>

\* main, line 388: the first SDL_PollEvent of a frame gathers the pending
\* input, which is whatever the user did
Pump ==
    /\ pc = "pump"
    /\ \E q \in EventSeqs : queue' = q
    /\ escSeen' = FALSE
    /\ pc' = "poll"
    /\ UNCHANGED <<exitCode, running, setupOK, amnt, radius, balls, i, j,
                   frame, start, calls, log, quitSeen>>

runningIgnoresQuit(e, r) == r

\* main, lines 389-394: `running` after event e has been handled
runningAfterEvent(e, r) == IF e = "SDL_QUIT" THEN FALSE ELSE r

\* main, lines 395-403: the queue after event e has been taken from it
queueAfterEvent(e, q) ==
    IF e = "SDLK_ESCAPE" THEN Append(Tail(q), "SDL_QUIT") ELSE Tail(q)

\* main, lines 388-405: one SDL_PollEvent and its switch, or the loop's exit
Poll ==
    /\ pc = "poll"
    /\ IF queue = <<>>
       THEN /\ pc' = "present"
            /\ UNCHANGED <<running, queue, quitSeen, escSeen>>
       ELSE LET e == Head(queue)
            IN  /\ running' = runningAfterEvent(e, running)
                /\ queue' = queueAfterEvent(e, queue)
                /\ quitSeen' = (quitSeen \/ e = "SDL_QUIT")
                /\ escSeen' = (escSeen \/ e = "SDLK_ESCAPE")
                /\ pc' = pc
    /\ UNCHANGED <<exitCode, setupOK, amnt, radius, balls, i, j, frame, start,
                   calls, log>>

\* main, lines 407-413: present the frame and pace it
Present ==
    /\ pc = "present"
    /\ pc' = "loop"
    /\ UNCHANGED <<exitCode, running, setupOK, amnt, radius, balls, i, j,
                   queue, frame, start, calls, log, quitSeen, escSeen>>

\* main, lines 415-418
Teardown ==
    /\ pc = "teardown"
    /\ pc' = "exit"
    /\ exitCode' = 0
    /\ UNCHANGED <<running, setupOK, amnt, radius, balls, i, j, queue, frame,
                   start, calls, log, quitSeen, escSeen>>

Next ==
    \/ Args
    \/ Setup
    \/ Make
    \/ Loop
    \/ Scan
    \/ Move
    \/ Wall
    \/ Pump
    \/ Poll
    \/ Present
    \/ Teardown

Spec == Init /\ [][Next]_vars

---------------------------------------------------------------------------
(* bounce() on its own: a pair of balls with distinct centres, and calls   *)
(* of bounce on the pair in either argument order.                         *)

Speeds == (-MaxSpeed)..MaxSpeed

Offsets == ((-MaxOffset)..MaxOffset) \cup {8}

BouncePairs ==
    { << [radius |-> 5, pos |-> Vec(0, 0), dir |-> Vec(va[1], va[2])],
         [radius |-> 5, pos |-> Vec(o[1], o[2]), dir |-> Vec(vb[1], vb[2])] >> :
      va \in Speeds \X Speeds, vb \in Speeds \X Speeds,
      o \in (Offsets \X Offsets) \ {<<0, 0>>} }

InitBounce ==
    /\ pc = "bounce"
    /\ exitCode = -1
    /\ running = TRUE
    /\ setupOK = TRUE
    /\ amnt = 2
    /\ radius = 5
    /\ balls \in BouncePairs
    /\ i = 1
    /\ j = 2
    /\ queue = <<>>
    /\ frame = 0
    /\ start = balls
    /\ calls = <<>>
    /\ log = <<>>
    /\ quitSeen = FALSE
    /\ escSeen = FALSE

\* bounce(balls[a], balls[b]) for a, b = 1, 2 or 2, 1
BounceCall ==
    /\ pc = "bounce"
    /\ Len(calls) < MaxBounces
    /\ \E a \in {1, 2} :
         LET b  == 3 - a
             ab == bounce(balls[a], balls[b])
         IN  /\ balls' = [balls EXCEPT ![a] = ab[1], ![b] = ab[2]]
             /\ calls' = Append(calls, [i |-> a, j |-> b])
             /\ i' = a
             /\ j' = b
    /\ start' = balls
    /\ UNCHANGED <<pc, exitCode, running, setupOK, amnt, radius, queue, frame,
                   log, quitSeen, escSeen>>

NextBounce == BounceCall

SpecBounce == InitBounce /\ [][NextBounce]_vars

---------------------------------------------------------------------------
(* Notions the properties are stated in *)

IsNum(x) == ~IsNaN(x)

Ge(x, y) == IsNum(x) /\ IsNum(y) /\ ~Lt(x, y)

Le(x, y) == Ge(y, x)

Sq(x) == Mul(x, x)

\* centre distance below the sum of the radii
Overlap(a, b) ==
    LET dx == Sub(a.pos.x, b.pos.x)
        dy == Sub(a.pos.y, b.pos.y)
        s  == a.radius + b.radius
    IN  /\ IsNum(dx) /\ IsNum(dy)
        /\ Lt(dx, D(s)) /\ Gt(dx, D(-s))
        /\ Lt(dy, D(s)) /\ Gt(dy, D(-s))
        /\ Lt(Add(Sq(dx), Sq(dy)), D(s * s))

NoOverlap(bs) ==
    \A a, b \in 1..Len(bs) : a # b => ~Overlap(bs[a], bs[b])

\* the ball lies entirely inside the arena
Inside(b) ==
    /\ Ge(Sub(b.pos.x, D(b.radius)), D(0))
    /\ Le(Add(b.pos.x, D(b.radius)), D(SCREEN_WIDTH))
    /\ Ge(Sub(b.pos.y, D(b.radius)), D(0))
    /\ Le(Add(b.pos.y, D(b.radius)), D(SCREEN_HEIGHT))

\* renderBalls has returned in the current iteration of main's loop
StepDone == pc \in {"pump", "poll", "present"}

InStep == pc \in {"scan", "move", "wall"}

---------------------------------------------------------------------------
\* C1: once a ball has been through moveBall and bounceWall, it lies inside
\* the arena on both axes at every later frame boundary (for a radius with
\* 2 * radius + 1 <= SCREEN_WIDTH).
C1_InsideAtFrameBoundary ==
    (pc = "loop" /\ frame >= 1 /\ 2 * radius + 1 <= SCREEN_WIDTH)
        => \A k \in 1..amnt : Inside(balls[k])

\* position p and velocity v became q and w as C2 says, on an axis of the
\* given extent
C2_AxisReflected(p, v, q, w, r, extent) ==
    /\ Lt(Sub(p, D(r)), D(0)) => (w = Neg(v) /\ q = D(r + 1))
    /\ Gt(Add(p, D(r)), D(extent)) => (w = Neg(v) /\ q = D(extent - r - 1))

\* C2: on each axis, a ball with an edge outside the arena when bounceWall
\* runs has its velocity on that axis negated and is put radius + 1 inside
\* the boundary it crossed: radius + 1 at the boundary 0, extent - radius - 1
\* at the far boundary, for every sign of the velocity.
C2_ClampsToCrossedBoundary ==
    [][pc = "wall" =>
         /\ C2_AxisReflected(balls[i].pos.x, balls[i].dir.x,
                             balls'[i].pos.x, balls'[i].dir.x,
                             balls[i].radius, SCREEN_WIDTH)
         /\ C2_AxisReflected(balls[i].pos.y, balls[i].dir.y,
                             balls'[i].pos.y, balls'[i].dir.y,
                             balls[i].radius, SCREEN_HEIGHT)]_vars

---------------------------------------------------------------------------
(* Properties of bounce(), under SpecBounce.  start holds the pair as it   *)
(* was before the last call, i and j the argument order of that call.      *)

Called == calls # <<>>

\* the vector from the first argument's centre to the second's
CentreLine == [x |-> Sub(start[j].pos.x, start[i].pos.x),
               y |-> Sub(start[j].pos.y, start[i].pos.y)]

\* v . w for plain vectors
Inner(v, w) == Add(Mul(v.x, w.x), Mul(v.y, w.y))

\* u rotated by a quarter turn
Perp(u) == [x |-> Neg(u.y), y |-> u.x]

C4_NormalComponentsExchanged ==
    (Called /\ start[1].pos # start[2].pos) =>
        LET n == CentreLine
            t == Perp(CentreLine)
        IN  /\ Inner(balls[i].dir, n) = Inner(start[j].dir, n)
            /\ Inner(balls[j].dir, n) = Inner(start[i].dir, n)
            /\ Inner(balls[i].dir, t) = Inner(start[i].dir, t)
            /\ Inner(balls[j].dir, t) = Inner(start[j].dir, t)
            /\ (n.y.n = 0 => /\ balls[i].dir.x = start[j].dir.x
                             /\ balls[j].dir.x = start[i].dir.x
                             /\ balls[i].dir.y = start[i].dir.y
                             /\ balls[j].dir.y = start[j].dir.y)
            /\ (n.x.n = 0 => /\ balls[i].dir.y = start[j].dir.y
                             /\ balls[j].dir.y = start[i].dir.y
                             /\ balls[i].dir.x = start[i].dir.x
                             /\ balls[j].dir.x = start[j].dir.x)
            /\ Add(Inner(balls[1].dir, balls[1].dir),
                   Inner(balls[2].dir, balls[2].dir))
                 = Add(Inner(start[1].dir, start[1].dir),
                       Inner(start[2].dir, start[2].dir))

\* a = (pos (0,0), vel (1,0)), b = (pos (8,0), vel (-1,0)) gave
\* a.velocity = (-1,0), b.velocity = (1,0)
C4_Witness ==
    /\ Len(calls) = 1
    /\ i = 1
    /\ start[1].pos = Vec(0, 0) /\ start[1].dir = Vec(1, 0)
    /\ start[2].pos = Vec(8, 0) /\ start[2].dir = Vec(-1, 0)
    /\ balls[1].dir = Vec(-1, 0)
    /\ balls[2].dir = Vec(1, 0)

---------------------------------------------------------------------------
(* Properties of the simulation step and of the driver, under Spec *)

\* C5 as stated: when no two balls overlap as renderBalls starts, that call
\* of renderBalls never invokes bounce.
C5_NoBounceWhenDisjointAtStart ==
    (frame >= 1 /\ NoOverlap(start)) => calls = <<>>

\* with no overlap as renderBalls started, every invocation of bounce is by
\* the scan of a ball i on a ball j < i that has been displaced in this call
C5_CallsOnDisplaced ==
    (frame >= 1 /\ calls # <<>> /\ NoOverlap(start)) =>
        \A c \in 1..Len(calls) :
            /\ calls[c].j < calls[c].i
            /\ balls[calls[c].j].pos # start[calls[c].j].pos

\* a velocity changes by an invocation of bounce on that ball or by the
\* ball's bounceWall only, a position by the ball's moveBall or bounceWall
C5_OtherwiseUnchanged ==
    \A k \in 1..Len(balls) :
        /\ Len(balls') = Len(balls)
        /\ balls'[k].dir # balls[k].dir =>
              \/ /\ pc = "scan"
                 /\ calls' # calls
                 /\ k \in {calls'[Len(calls')].i, calls'[Len(calls')].j}
              \/ pc = "wall" /\ k = i
        /\ balls'[k].pos # balls[k].pos => (pc \in {"move", "wall"} /\ k = i)

\* C5 as amended: when no two balls overlap as renderBalls starts, the scan
\* of ball i invokes bounce only on a ball j < i that moveBall / bounceWall
\* have already displaced in this call, so the scan of the first ball never
\* does; other than by such invocations velocities change by bounceWall
\* only, and positions by moveBall and bounceWall only.
C5_BounceOnlyOnDisplacedBall ==
    [](C5_CallsOnDisplaced) /\ [][pc # "make" => C5_OtherwiseUnchanged]_vars

\* no overlap at the start of the call, and the scan of a later ball hit a
\* ball that had moved into it
C5_Witness ==
    /\ frame >= 1
    /\ NoOverlap(start)
    /\ StepDone
    /\ calls # <<>>

\* C6: two balls of radius 5 on one horizontal line, centres 8 apart, the
\* left one first with velocity (1,0), the right one with velocity (-1,0):
\* when the first call of renderBalls has returned, the velocities are
\* (-1,0) and (1,0).
C6_TwoBodyBounceSwaps ==
    ( /\ frame = 1
      /\ StepDone
      /\ amnt = 2
      /\ \A k \in {1, 2} : start[k].radius = 5
      /\ start[1].pos.y = start[2].pos.y
      /\ Sub(start[2].pos.x, start[1].pos.x) = D(8)
      /\ start[1].dir = Vec(1, 0)
      /\ start[2].dir = Vec(-1, 0) )
    => (balls[1].dir = Vec(-1, 0) /\ balls[2].dir = Vec(1, 0))

\* the entries of log about ball k, in order
RECURSIVE OpsOf(_, _)
OpsOf(l, k) ==
    IF l = <<>> THEN <<>>
    ELSE IF Head(l).b = k THEN <<Head(l).op>> \o OpsOf(Tail(l), k)
    ELSE OpsOf(Tail(l), k)

\* the step of moveBall is a translation of ball i and nothing else
C7_Translation ==
    pc = "move" =>
        /\ balls'[i].pos.x = Add(balls[i].pos.x, balls[i].dir.x)
        /\ balls'[i].pos.y = Add(balls[i].pos.y, balls[i].dir.y)
        /\ balls'[i].dir = balls[i].dir
        /\ balls'[i].radius = balls[i].radius
        /\ \A k \in 1..amnt : k # i => balls'[k] = balls[k]

\* per ball and call of renderBalls: scan, then moveBall, then bounceWall
C7_OncePerFrameInOrder ==
    /\ StepDone =>
         \A k \in 1..amnt : OpsOf(log, k) = <<"scan", "moveBall", "bounceWall">>
    /\ InStep =>
         \A k \in 1..amnt :
            OpsOf(log, k) \in { <<>>, <<"scan">>, <<"scan", "moveBall">>,
                                <<"scan", "moveBall", "bounceWall">> }

\* C7: moveBall adds the velocity to the position on both axes and changes
\* nothing else, of that ball or of any other; in each call of renderBalls
\* it is applied to each ball exactly once, after the ball's scan and before
\* its bounceWall.
C7_MoveBall == [](C7_OncePerFrameInOrder) /\ [][C7_Translation]_vars

\* moveBall has displaced a ball on both axes
C7_Witness ==
    /\ pc = "wall"
    /\ IsNum(balls[i].pos.x)
    /\ balls[i].pos.x # start[i].pos.x
    /\ balls[i].pos.y # start[i].pos.y


\* at most one invocation of bounce per scanned ball
C8_AtMostOncePerBall ==
    /\ Len(calls) <= amnt
    /\ \A c, e \in 1..Len(calls) : calls[c].i = calls[e].i => c = e

\* a step that invokes bounce does so on i and its lowest overlapping partner
C8_LowestPartner ==
    calls' # calls =>
        LET c == calls'[Len(calls')]
        IN  /\ calls' = Append(calls, c)
            /\ c.i = i
            /\ c.j # c.i
            /\ Overlap(balls[c.i], balls[c.j])
            /\ \A k \in 1..amnt :
                 (k < c.j /\ k # c.i) => ~Overlap(balls[c.i], balls[k])
            /\ \A k \in 1..amnt :
                 (k # c.i /\ k # c.j) => balls'[k] = balls[k]

\* C8: in one call of renderBalls the scan of ball i invokes bounce at most
\* once, on the lowest-index ball j # i that overlaps i at that moment, and
\* changes no ball other than i and j; so the call makes at most amnt
\* invocations.
C8_FirstCollisionWins ==
    [](InStep \/ StepDone => C8_AtMostOncePerBall)
        /\ [][InStep => C8_LowestPartner]_vars

\* the scan of a ball that two others overlapped: bounce was invoked on the
\* lower one, and the higher one, which overlaps it too, comes later
C8_Witness ==
    /\ pc = "move"
    /\ calls # <<>>
    /\ LET c == calls[Len(calls)]
       IN  /\ c.i = i
           /\ \E k \in 1..amnt :
                k > c.j /\ k # c.i /\ Overlap(balls[c.i], balls[k])

\* the driver's state
DriverState ==
    IF pc \in {"args", "setup", "make"} THEN "Initializing"
    ELSE IF pc \in {"teardown", "exit"} \/ ~running THEN "Stopped"
    ELSE "Running"

\* the steps the driver may take
C9_Transitions ==
    /\ DriverState = "Stopped" => DriverState' = "Stopped"
    /\ DriverState = "Running" => DriverState' \in {"Running", "Stopped"}
    /\ DriverState' = "Running" => setupOK'
    /\ InStep' => (DriverState' = "Running" /\ ~quitSeen')
    /\ quitSeen => quitSeen'
    /\ (quitSeen /\ pc = "poll") => pc' \in {"poll", "present"}
    /\ (quitSeen /\ pc = "present") => pc' = "loop"
    /\ (quitSeen /\ pc = "loop") => pc' = "teardown"

\* what the flags say of the driver
C9_AfterPoll ==
    /\ (pc = "present" /\ escSeen) => quitSeen
    /\ quitSeen => ~running
    /\ (~setupOK /\ pc \notin {"args", "setup"}) => (frame = 0 /\ ~running)
    /\ pc = "exit" => exitCode \in {0, 1}

\* C9: the driver moves Initializing -> Running -> Stopped only, and Stopped
\* is final; renderBalls runs only while Running, which is entered only when
\* setup succeeded (when it failed renderBalls never runs); once an SDL_QUIT
\* event has been handled (Escape pushes one, which the same poll loop
\* handles), the frame is finished and renderBalls is never entered again.
C9_DriverStateMachine == [](C9_AfterPoll) /\ [][C9_Transitions]_vars

\* Escape was handled in a frame's poll, and the program has exited without
\* another call of renderBalls
C9_Witness ==
    /\ pc = "exit"
    /\ exitCode = 0
    /\ frame = 1
    /\ escSeen
    /\ quitSeen

\* C10: whenever renderBalls is about to invoke bounce on a pair, the two
\* centres are distinct, so that norm never divides by zero and every
\* velocity stays a number.
C10_CentresDistinctAtBounce ==
    /\ (pc = "scan" /\ j <= amnt /\ j # i /\ overlaps(balls[i], balls[j]))
         => balls[i].pos # balls[j].pos
    /\ \A k \in 1..Len(balls) : IsNum(balls[k].dir.x) /\ IsNum(balls[k].dir.y)

=============================================================================
